---- MODULE Spec2Model ----
(***************************************************************************)
(* Model of the lenient wire-format adapters of sure-client-rs             *)
(* (src/src/serde.rs): the flexible decimal deserializer and its visitor.  *)
(*                                                                         *)
(* A Rust &str is modelled as a sequence of one-character strings; byte    *)
(* lengths and byte offsets (str::len, str::rfind) are computed from the   *)
(* UTF-8 width of each character.  A Decimal is a record                   *)
(* [neg, mant, scale] standing for (-1)^neg * mant / 10^scale.             *)
(***************************************************************************)
EXTENDS Integers, Sequences, FiniteSets

VARIABLES token, overflow_checks, pc, out

vars == <<token, overflow_checks, pc, out>>

(***************************************************************************)
(* Bounds of the model.                                                    *)
(***************************************************************************)
MaxLen == 3        \* longest enumerated free-form string token
MaxBodyLen == 4    \* longest enumerated numeric body (digits, '.' and ',')
MaxInt == 30       \* largest enumerated integer token magnitude

(***************************************************************************)
(* Characters.                                                             *)
(***************************************************************************)
AsciiDigits == {"0", "1", "2", "3", "4", "5", "6", "7", "8", "9"}

CurrencySymbols == {"$", "€", "£"}

\* char::is_ascii_digit with the digits '1'..='9' only (drops zeros).
IsAsciiDigit_NoZero(c) == c \in (AsciiDigits \ {"0"})

\* char::is_ascii_digit
IsAsciiDigit(c) == c \in AsciiDigits

DigitVal(c) ==
    CASE c = "0" -> 0 [] c = "1" -> 1 [] c = "2" -> 2 [] c = "3" -> 3
      [] c = "4" -> 4 [] c = "5" -> 5 [] c = "6" -> 6 [] c = "7" -> 7
      [] c = "8" -> 8 [] c = "9" -> 9

DigitChar(d) ==
    CASE d = 0 -> "0" [] d = 1 -> "1" [] d = 2 -> "2" [] d = 3 -> "3"
      [] d = 4 -> "4" [] d = 5 -> "5" [] d = 6 -> "6" [] d = 7 -> "7"
      [] d = 8 -> "8" [] d = 9 -> "9"

\* UTF-8 width of a character: str::len and str::rfind count bytes.
ByteLen(c) == CASE c = "€" -> 3 [] c = "£" -> 2 [] OTHER -> 1

\* char::is_whitespace, as used by str::trim
IsWhitespace(c) == c = " "

(***************************************************************************)
(* &str operations used by visit_str.                                      *)
(***************************************************************************)
RECURSIVE StrLen(_)
\* str::len: length in bytes
StrLen(s) == IF s = <<>> THEN 0 ELSE ByteLen(Head(s)) + StrLen(Tail(s))

RECURSIVE TrimStart(_)
TrimStart(s) ==
    IF s # <<>> /\ IsWhitespace(Head(s)) THEN TrimStart(Tail(s)) ELSE s

RECURSIVE TrimEnd(_)
TrimEnd(s) ==
    IF s # <<>> /\ IsWhitespace(s[Len(s)])
    THEN TrimEnd(SubSeq(s, 1, Len(s) - 1)) ELSE s

\* str::trim
Trim(s) == TrimEnd(TrimStart(s))

StartsWith(s, c) == s # <<>> /\ s[1] = c

EndsWith(s, c) == s # <<>> /\ s[Len(s)] = c

\* Option<usize>::None
NoPos == -1

\* Index (1-based, in characters) of the last occurrence of c, 0 if none.
LastIndex(s, c) ==
    LET I == {i \in 1..Len(s) : s[i] = c}
    IN IF I = {} THEN 0 ELSE CHOOSE i \in I : \A j \in I : j <= i

\* str::rfind: byte offset of the last occurrence of c, or None.
RFind(s, c) ==
    IF LastIndex(s, c) = 0 THEN NoPos
    ELSE StrLen(SubSeq(s, 1, LastIndex(s, c) - 1))

\* s.matches(c).count()
CountChar(s, c) == Cardinality({i \in 1..Len(s) : s[i] = c})

RECURSIVE KeepDigitsAnd(_, _)
\* The filtering loops of visit_str: digits are pushed, the character sep
\* (when there is one) is pushed as '.', everything else is dropped.
KeepDigitsAnd(s, sep) ==
    IF s = <<>> THEN <<>>
    ELSE LET c == Head(s)
             rest == KeepDigitsAnd(Tail(s), sep)
         IN IF IsAsciiDigit(c) THEN <<c>> \o rest
            ELSE IF c = sep THEN <<".">> \o rest
            ELSE rest

(***************************************************************************)
(* rust_decimal::Decimal.                                                  *)
(***************************************************************************)
Dec(neg, mant, scale) == [neg |-> neg, mant |-> mant, scale |-> scale]

\* Decimal::ZERO
DecZero == Dec(FALSE, 0, 0)

RECURSIVE StripZeros(_, _)
StripZeros(mant, scale) ==
    IF scale > 0 /\ mant % 10 = 0 THEN StripZeros(mant \div 10, scale - 1)
    ELSE [mant |-> mant, scale |-> scale]

\* Decimal::normalize: the representation with no trailing fractional zeros.
Normalized(d) ==
    LET r == StripZeros(d.mant, d.scale)
    IN Dec(d.neg /\ r.mant # 0, r.mant, r.scale)

\* impl PartialEq for Decimal: numeric equality, 1.0 == 1.00.
DecEq(a, b) == Normalized(a) = Normalized(b)

RECURSIVE DigitsValue(_)
DigitsValue(ds) ==
    IF ds = <<>> THEN 0
    ELSE DigitsValue(SubSeq(ds, 1, Len(ds) - 1)) * 10 + DigitVal(ds[Len(ds)])

\* Decimal::from_str on the strings visit_str can build (digits, '.', a
\* leading '-'): None when the text is empty, has no digit, or has a second
\* '.'; a zero value carries no sign.
FromStr(str) ==
    LET neg == StartsWith(str, "-")
        body == IF neg THEN Tail(str) ELSE str
        dot == LastIndex(body, ".")
        digits == SelectSeq(body, IsAsciiDigit)
        wellFormed == /\ \A i \in 1..Len(body) :
                             IsAsciiDigit(body[i]) \/ body[i] = "."
                      /\ CountChar(body, ".") <= 1
                      /\ digits # <<>>
        mant == DigitsValue(digits)
        scale == IF dot = 0 THEN 0 ELSE Len(body) - dot
    IN IF wellFormed
       THEN [some |-> TRUE, value |-> Dec(neg /\ mant # 0, mant, scale)]
       ELSE [some |-> FALSE, value |-> DecZero]

\* The Display text of the rust_decimal::Error that Decimal::from_str
\* returns for a text it rejects.
FromStrError(str) ==
    LET body == IF StartsWith(str, "-") THEN Tail(str) ELSE str
    IN IF str = <<>> THEN "Invalid decimal: empty"
       ELSE IF CountChar(body, ".") > 1
       THEN "Invalid decimal: two decimal points"
       ELSE "Invalid decimal: no digits found"

RECURSIVE IntToStr(_)
\* u64::to_string
IntToStr(n) ==
    IF n < 10 THEN <<DigitChar(n)>>
    ELSE IntToStr(n \div 10) \o <<DigitChar(n % 10)>>

RECURSIVE Zeros(_)
Zeros(k) == IF k <= 0 THEN <<>> ELSE <<"0">> \o Zeros(k - 1)

\* impl Display for Decimal: the mantissa with exactly `scale` fractional
\* digits, at least one integer digit, '-' for a negative value.
to_string(d) ==
    LET raw == IntToStr(d.mant)
        padded == Zeros(d.scale + 1 - Len(raw)) \o raw
        cut == Len(padded) - d.scale
        text == IF d.scale = 0 THEN padded
                ELSE SubSeq(padded, 1, cut) \o <<".">>
                     \o SubSeq(padded, cut + 1, Len(padded))
    IN IF d.neg THEN <<"-">> \o text ELSE text

(***************************************************************************)
(* Outcomes of one deserialization.                                        *)
(***************************************************************************)
\* The text of an error: its fixed wording and the raw values formatted
\* into it.
Msg(reason, raw) == [reason |-> reason, raw |-> raw]

NoMsg == Msg("", <<>>)

Ok(final, d) ==
    [kind |-> "ok", final_str |-> final, value |-> d, msg |-> NoMsg]

\* de::Error::custom(message): the error carries the message only.
ErrWith(final, message) ==
    [kind |-> "err", final_str |-> final, value |-> DecZero, msg |-> message]

Err(final) == ErrWith(final, NoMsg)

Panic ==
    [kind |-> "panic", final_str |-> <<>>, value |-> DecZero, msg |-> NoMsg]

NoOut ==
    [kind |-> "none", final_str |-> <<>>, value |-> DecZero, msg |-> NoMsg]

(***************************************************************************)
(* FlexibleDecimalVisitor::visit_str.                                      *)
(***************************************************************************)
\* Negative only when the text starts with '-' (parentheses ignored).
IsNegative_MinusOnly(s) == StartsWith(s, "-")

\* is_negative, on the trimmed text
IsNegative(s) ==
    (StartsWith(s, "(") /\ EndsWith(s, ")")) \/ StartsWith(s, "-")

\* The text the separators are looked for in: trimmed, and with the
\* parentheses removed when it is wrapped in them.
Body(v) ==
    LET s == Trim(v)
    IN IF StartsWith(s, "(") /\ EndsWith(s, ")")
       THEN SubSeq(s, 2, Len(s) - 1)
       ELSE s

\* usize subtraction s.len() - 3.  A negative result stands for the wrapped
\* value 2^64 + result of a build without overflow checks.
LenMinus3(s) == StrLen(s) - 3

\* pos < s.len() - 3 on usize: every offset is below a wrapped difference.
UsizeLess(pos, diff) == IF diff < 0 THEN TRUE ELSE pos < diff

\* The single-separator test with the threshold s.len() - 2.
OnlyThousands_Len2(s, c) ==
    CountChar(s, c) > 1 \/ UsizeLess(RFind(s, c), StrLen(s) - 2)

\* s.matches(c).count() > 1 || s.rfind(c).unwrap_or(0) < s.len() - 3
OnlyThousands(s, c) ==
    CountChar(s, c) > 1 \/ UsizeLess(RFind(s, c), LenMinus3(s))

\* The subtraction is evaluated (|| short-circuits) and underflows.
Underflows(s, c) == CountChar(s, c) <= 1 /\ LenMinus3(s) < 0

\* The match on (last_dot, last_comma) with the earlier separator winning.
DecimalSeparator_Earlier(s, checks) ==
    LET last_dot == RFind(s, ".")
        last_comma == RFind(s, ",")
    IN CASE last_dot # NoPos /\ last_comma # NoPos ->
                IF last_dot > last_comma THEN "," ELSE "."
         [] last_dot = NoPos /\ last_comma # NoPos ->
                IF Underflows(s, ",") /\ checks THEN "panic"
                ELSE IF OnlyThousands(s, ",") THEN "" ELSE ","
         [] last_dot # NoPos /\ last_comma = NoPos ->
                IF Underflows(s, ".") /\ checks THEN "panic"
                ELSE IF OnlyThousands(s, ".") THEN "" ELSE "."
         [] OTHER -> ""

\* The single-separator arms with the threshold s.len() - 2.
DecimalSeparator_Len2(s, checks) ==
    LET last_dot == RFind(s, ".")
        last_comma == RFind(s, ",")
    IN CASE last_dot # NoPos /\ last_comma # NoPos ->
                IF last_dot > last_comma THEN "." ELSE ","
         [] last_dot = NoPos /\ last_comma # NoPos ->
                IF CountChar(s, ",") <= 1 /\ StrLen(s) < 2 /\ checks
                THEN "panic"
                ELSE IF OnlyThousands_Len2(s, ",") THEN "" ELSE ","
         [] last_dot # NoPos /\ last_comma = NoPos ->
                IF CountChar(s, ".") <= 1 /\ StrLen(s) < 2 /\ checks
                THEN "panic"
                ELSE IF OnlyThousands_Len2(s, ".") THEN "" ELSE "."
         [] OTHER -> ""

\* The match on (last_dot, last_comma): the character kept as the decimal
\* separator, "" when every separator is discarded, "panic" when s.len() - 3
\* underflows in a build with overflow checks.
DecimalSeparator(s, checks) ==
    LET last_dot == RFind(s, ".")
        last_comma == RFind(s, ",")
    IN CASE last_dot # NoPos /\ last_comma # NoPos ->
                IF last_dot > last_comma THEN "." ELSE ","
         [] last_dot = NoPos /\ last_comma # NoPos ->
                IF Underflows(s, ",") /\ checks THEN "panic"
                ELSE IF OnlyThousands(s, ",") THEN "" ELSE ","
         [] last_dot # NoPos /\ last_comma = NoPos ->
                IF Underflows(s, ".") /\ checks THEN "panic"
                ELSE IF OnlyThousands(s, ".") THEN "" ELSE "."
         [] OTHER -> ""

\* The canonical text handed to Decimal::from_str: the filtered body, '-'
\* inserted first when negative, then '0' inserted when it starts with '.'.
FinalStr(v, sep) ==
    LET filtered == KeepDigitsAnd(Body(v), sep)
        signed == IF IsNegative(Trim(v)) THEN <<"-">> \o filtered
                  ELSE filtered
    IN IF StartsWith(signed, ".") THEN <<"0">> \o signed ELSE signed

\* visit_str(v) in a build with (checks) or without overflow checks.
visit_str(v, checks) ==
    LET sep == DecimalSeparator(Body(v), checks)
        final == FinalStr(v, sep)
        parsed == FromStr(final)
    IN IF sep = "panic" THEN Panic
       ELSE IF parsed.some THEN Ok(final, parsed.value)
       ELSE ErrWith(final, Msg(FromStrError(final), <<>>))

(***************************************************************************)
(* The other visitor methods.                                              *)
(***************************************************************************)
\* visit_i64: Decimal::from(value)
visit_i64(n) == Ok(<<>>, Dec(n < 0, IF n < 0 THEN -n ELSE n, 0))

\* visit_u64: Decimal::from(value)
visit_u64(n) == Ok(<<>>, Dec(FALSE, n, 0))

\* visit_f64: Decimal::from_f64(value), None for a value outside the range
\* of Decimal.  A float token is given by its shortest decimal form.
visit_f64(f) ==
    IF f.in_range THEN Ok(<<>>, f.value)
    ELSE ErrWith(<<>>, Msg("invalid float value: {}", <<f>>))

\* The visitor defines no visit_unit: serde's default rejects the value
\* with invalid_type(Unexpected::Unit, &self).
visit_unit ==
    ErrWith(<<>>, Msg("invalid type: null, expected a string or number representing a decimal", <<>>))

\* A field carrying deserialize_with and no default: a missing key is
\* serde's missing_field error.
missing_field == ErrWith(<<>>, Msg("missing field balance", <<>>))

(***************************************************************************)
(* Raw numeric tokens.                                                     *)
(***************************************************************************)
Str(v) == [kind |-> "str", val |-> v]

Strings(A, n) == UNION {[1..k -> A] : k \in 0..n}

\* Characters of the enumerated free-form tokens.
Alphabet == {"0", "1", "5", ".", ",", "$", "€", "-", "(", ")", " "}

\* Characters of the enumerated numeric bodies.
BodyAlphabet == {"0", "1", "5", ".", ","}

\* The inputs of test_flexible_decimal_parsing.
WorkedInputs == {
    <<"1", "0", "0", "0">>,
    <<"$", "1", "0", "0", "0">>,
    <<"$", "1", "0", "0", "0", ".", "0", "0">>,
    <<"1", "0", "0", ",", "0", "0", "0", ".", "0", "0">>,
    <<"1", "0", "0", ".", "0", "0", "0", ",", "0", "0">>,
    <<"1", ",", "2", "3", "4", ",", "5", "6", "7", ".", "8", "9">>,
    <<"1", ".", "2", "3", "4", ".", "5", "6", "7", ",", "8", "9">>,
    <<"€", "1", ".", "2", "3", "4", ",", "5", "6">>,
    <<"£", "1", ",", "2", "3", "4", ".", "5", "6">>,
    <<" ", " ", "$", " ", "5", ",", "0", "0", "0", ".", "5", "0", " ", " ">>,
    <<"-", "1", "2", "3", ".", "4", "5">>,
    <<"-", "$", "1", ",", "2", "3", "4", ".", "5", "6">>,
    <<"(", "$", "1", ",", "2", "3", "4", ".", "5", "6", ")">>,
    <<"1", ",", "0", "0", "0">>,
    <<"1", ".", "0", "0", "0">>,
    <<".", "5", "0">>,
    <<"0", ".", "5", "0">>,
    <<",", "5", "0">>,
    <<"0", ",", "5", "0">>}

\* Further tokens with many fractional digits or repeated separators.
ExtraInputs == {
    <<"1", ",", "5", ".", "1", "2", "3">>,
    <<"1", ".", "2", ",", "3", ".", "4">>,
    <<"1", ",", "0", ".", "0", "0", "0">>,
    <<"1", ".", "5", "€">>,
    <<"1", "2", ",", "5", "0", " ", "€">>,
    <<"a", "b", "c">>,
    <<",", "a", "b">>,
    <<"-", ".", "5", "0">>,
    <<"-", ",", "5", "0">>,
    <<"(", ".", "5", "0", ")">>,
    <<"(", ",", "5", "0", ")">>}

StrTokens ==
    {Str(v) : v \in Strings(Alphabet, MaxLen) \cup
                    Strings(BodyAlphabet, MaxBodyLen) \cup
                    WorkedInputs \cup ExtraInputs}

IntTokens ==
    {[kind |-> "i64", val |-> n] : n \in (-MaxInt)..MaxInt} \cup
    {[kind |-> "u64", val |-> n] : n \in (0..MaxInt) \cup
                                         {999, 1000, 2147483647}}

F64(neg, mant, scale) ==
    [kind |-> "f64", val |-> [in_range |-> TRUE, value |-> Dec(neg, mant, scale)]]

\* 0.5, 1.25, 0.123, 1.2345, -2.5, 1000.0 and 1e300 (beyond Decimal::MAX)
F64Tokens ==
    {F64(FALSE, 5, 1), F64(FALSE, 125, 2), F64(FALSE, 123, 3),
     F64(FALSE, 12345, 4), F64(TRUE, 25, 1), F64(FALSE, 1000, 0),
     [kind |-> "f64", val |-> [in_range |-> FALSE, value |-> DecZero]]}

NullTokens == {[kind |-> "null", val |-> 0], [kind |-> "absent", val |-> 0]}

Tokens == StrTokens \cup IntTokens \cup F64Tokens \cup NullTokens

(***************************************************************************)
(* deserialize_flexible_decimal: deserialize_any dispatches on the kind of *)
(* the JSON value and calls one visitor method.                            *)
(***************************************************************************)
Init ==
    /\ token \in Tokens
    /\ overflow_checks \in BOOLEAN
    /\ pc = "start"
    /\ out = NoOut

Finish(result) ==
    /\ pc = "start"
    /\ pc' = "done"
    /\ out' = result
    /\ UNCHANGED <<token, overflow_checks>>

DeserializeStr ==
    /\ token.kind = "str"
    /\ Finish(visit_str(token.val, overflow_checks))

DeserializeI64 ==
    /\ token.kind = "i64"
    /\ Finish(visit_i64(token.val))

DeserializeU64 ==
    /\ token.kind = "u64"
    /\ Finish(visit_u64(token.val))

DeserializeF64 ==
    /\ token.kind = "f64"
    /\ Finish(visit_f64(token.val))

DeserializeNull ==
    /\ token.kind = "null"
    /\ Finish(visit_unit)

DeserializeAbsent ==
    /\ token.kind = "absent"
    /\ Finish(missing_field)

Next ==
    \/ DeserializeStr
    \/ DeserializeI64
    \/ DeserializeU64
    \/ DeserializeF64
    \/ DeserializeNull
    \/ DeserializeAbsent

Spec == Init /\ [][Next]_vars

TypeOK ==
    /\ token \in Tokens
    /\ overflow_checks \in BOOLEAN
    /\ pc \in {"start", "done"}
    /\ out.kind \in {"none", "ok", "err", "panic"}


(***************************************************************************)
(* Vocabulary of the properties.                                           *)
(***************************************************************************)
StrDone == pc = "done" /\ token.kind = "str"

HasChar(s, c) == \E i \in 1..Len(s) : s[i] = c

DigitsOf(s) == SelectSeq(s, LAMBDA c : c \in AsciiDigits)

\* Characters, and bytes, that follow the last occurrence of c in s.
TrailingChars(s, c) == Len(s) - LastIndex(s, c)

TrailingBytes(s, c) == StrLen(SubSeq(s, LastIndex(s, c) + 1, Len(s)))

\* Digits of s that follow the last occurrence of c.
DigitsAfter(s, c) == Len(DigitsOf(SubSeq(s, LastIndex(s, c) + 1, Len(s))))

\* Every '.' and ',' of the token was discarded: digits only reach the parser.
TreatedThousands ==
    /\ out.kind \in {"ok", "err"}
    /\ ~HasChar(out.final_str, ".")
    /\ DigitsOf(out.final_str) = DigitsOf(token.val)

\* Character c was kept as the decimal point; the digits are unchanged but
\* for the '0' put in front of a leading '.'.
TreatedDecimal(c) ==
    /\ out.kind \in {"ok", "err"}
    /\ CountChar(out.final_str, ".") = CountChar(token.val, c)
    /\ DigitsOf(out.final_str) \in
          {DigitsOf(token.val), <<"0">> \o DigitsOf(token.val)}
    /\ (CountChar(token.val, c) = 1 /\ DigitsOf(token.val) # <<>>) =>
          /\ out.kind = "ok"
          /\ out.value.mant = DigitsValue(DigitsOf(token.val))
          /\ out.value.scale = DigitsAfter(token.val, c)

\* A numeric body: digits and separators only, with at least one digit.
NumericBody(b) ==
    /\ b # <<>>
    /\ \A i \in 1..Len(b) : b[i] \in AsciiDigits \cup {".", ","}
    /\ DigitsOf(b) # <<>>

\* Two calls agree: the same kind of outcome and numerically equal values.
SameResult(a, b) ==
    /\ a.kind = b.kind
    /\ a.kind = "ok" => DecEq(a.value, b.value)

\* Outcome a is the negation of outcome b.
NegationOf(a, b) ==
    /\ a.kind = b.kind
    /\ a.kind = "ok" =>
          DecEq(a.value, Dec(~b.value.neg, b.value.mant, b.value.scale))

\* The worked inputs with the values listed for them.
WorkedCases == {
    [input |-> <<"1", "0", "0", "0">>,
     expected |-> Dec(FALSE, 1000, 0)],
    [input |-> <<"$", "1", "0", "0", "0">>,
     expected |-> Dec(FALSE, 1000, 0)],
    [input |-> <<"$", "1", "0", "0", "0", ".", "0", "0">>,
     expected |-> Dec(FALSE, 100000, 2)],
    [input |-> <<"1", "0", "0", ",", "0", "0", "0", ".", "0", "0">>,
     expected |-> Dec(FALSE, 10000000, 2)],
    [input |-> <<"1", "0", "0", ".", "0", "0", "0", ",", "0", "0">>,
     expected |-> Dec(FALSE, 10000000, 2)],
    [input |-> <<"1", ",", "2", "3", "4", ",", "5", "6", "7", ".", "8", "9">>,
     expected |-> Dec(FALSE, 123456789, 2)],
    [input |-> <<"1", ".", "2", "3", "4", ".", "5", "6", "7", ",", "8", "9">>,
     expected |-> Dec(FALSE, 123456789, 2)],
    [input |-> <<"€", "1", ".", "2", "3", "4", ",", "5", "6">>,
     expected |-> Dec(FALSE, 123456, 2)],
    [input |-> <<"£", "1", ",", "2", "3", "4", ".", "5", "6">>,
     expected |-> Dec(FALSE, 123456, 2)],
    [input |-> <<" ", " ", "$", " ", "5", ",", "0", "0", "0", ".", "5", "0", " ", " ">>,
     expected |-> Dec(FALSE, 500050, 2)],
    [input |-> <<"-", "1", "2", "3", ".", "4", "5">>,
     expected |-> Dec(TRUE, 12345, 2)],
    [input |-> <<"-", "$", "1", ",", "2", "3", "4", ".", "5", "6">>,
     expected |-> Dec(TRUE, 123456, 2)],
    [input |-> <<"(", "$", "1", ",", "2", "3", "4", ".", "5", "6", ")">>,
     expected |-> Dec(TRUE, 123456, 2)],
    [input |-> <<"1", ",", "0", "0", "0">>,
     expected |-> Dec(FALSE, 1000, 0)],
    [input |-> <<"1", ".", "0", "0", "0">>,
     expected |-> Dec(FALSE, 1000, 0)],
    [input |-> <<".", "5", "0">>,
     expected |-> Dec(FALSE, 50, 2)],
    [input |-> <<"0", ".", "5", "0">>,
     expected |-> Dec(FALSE, 50, 2)],
    [input |-> <<",", "5", "0">>,
     expected |-> Dec(FALSE, 50, 2)],
    [input |-> <<"0", ",", "5", "0">>,
     expected |-> Dec(FALSE, 50, 2)]}

(***************************************************************************)
(* C1: in a string token that contains both '.' and ',', the character     *)
(* that occurs later is the decimal separator (it reaches the parser as    *)
(* '.') and every occurrence of the other character is discarded.          *)
(***************************************************************************)
C1_LaterIsDecimal ==
    (StrDone /\ HasChar(token.val, ".") /\ HasChar(token.val, ",")) =>
        IF LastIndex(token.val, ".") > LastIndex(token.val, ",")
        THEN TreatedDecimal(".")
        ELSE TreatedDecimal(",")

C1_Witness ==
    /\ StrDone
    /\ token.val = <<"1", "0", "0", ".", "0", "0", "0", ",", "0", "0">>
    /\ out.kind = "ok"
    /\ out.value = Dec(FALSE, 10000000, 2)

(***************************************************************************)
(* C2 as stated: in a string token with ',' and no '.', the commas are     *)
(* thousands separators when there are several or when the last comma is   *)
(* followed by anything other than exactly 2 characters; otherwise the     *)
(* comma is the decimal separator.  Stated for the calls that return.      *)
(***************************************************************************)
C2_Original ==
    (StrDone /\ HasChar(token.val, ",") /\ ~HasChar(token.val, ".")
       /\ out.kind # "panic") =>
        IF \/ CountChar(Body(token.val), ",") > 1
           \/ TrailingChars(Body(token.val), ",") # 2
        THEN TreatedThousands
        ELSE TreatedDecimal(",")

(***************************************************************************)
(* C2 as amended: the commas are thousands separators when there are       *)
(* several or when the last comma is followed by more than 2 bytes of the  *)
(* trimmed, parenthesis-stripped text; a single comma followed by at most  *)
(* 2 bytes is the decimal separator when that text has at least 3 bytes;   *)
(* on a shorter text the length subtraction underflows: the call panics    *)
(* with overflow checks and discards the comma without them.               *)
(***************************************************************************)
C2_Amended ==
    (StrDone /\ HasChar(token.val, ",") /\ ~HasChar(token.val, ".")) =>
        IF \/ CountChar(Body(token.val), ",") > 1
           \/ TrailingBytes(Body(token.val), ",") > 2
        THEN TreatedThousands
        ELSE IF StrLen(Body(token.val)) >= 3 THEN TreatedDecimal(",")
        ELSE IF overflow_checks THEN out.kind = "panic"
        ELSE TreatedThousands

C2_Witness ==
    /\ StrDone
    /\ token.val = <<"1", ",", "5">>
    /\ out.kind = "ok"
    /\ out.value = Dec(FALSE, 15, 1)

(***************************************************************************)
(* C3: in a string token with '.' and no ',', the dots are thousands       *)
(* separators when there are several or when the last dot is not within    *)
(* the final 3 characters; otherwise the single dot is the decimal         *)
(* separator.                                                              *)
(***************************************************************************)
C3_DotRule ==
    (StrDone /\ HasChar(token.val, ".") /\ ~HasChar(token.val, ",")) =>
        IF \/ CountChar(Body(token.val), ".") > 1
           \/ TrailingChars(Body(token.val), ".") > 2
        THEN TreatedThousands
        ELSE TreatedDecimal(".")

(***************************************************************************)
(* C4: a null or absent token yields Decimal zero, not an error.           *)
(***************************************************************************)
C4_NullIsZero ==
    (pc = "done" /\ token.kind \in {"null", "absent"}) =>
        /\ out.kind = "ok"
        /\ DecEq(out.value, DecZero)

(***************************************************************************)
(* C5: each worked input normalizes to exactly the value listed for it.    *)
(***************************************************************************)
C5_WorkedExamples ==
    StrDone =>
        \A w \in WorkedCases :
            token.val = w.input =>
                /\ out.kind = "ok"
                /\ out.value = w.expected

C5_Witness ==
    /\ StrDone
    /\ token.val = <<"(", "$", "1", ",", "2", "3", "4", ".", "5", "6", ")">>
    /\ out.kind = "ok"
    /\ out.value = Dec(TRUE, 123456, 2)

(***************************************************************************)
(* C6: for a numeric body B, "(" + B + ")" and "-" + B normalize to the    *)
(* same value, the negation of the value of B.                             *)
(***************************************************************************)
C6_ParenEqualsMinus ==
    (StrDone /\ NumericBody(token.val)) =>
        LET paren == visit_str(<<"(">> \o token.val \o <<")">>,
                               overflow_checks)
            minus == visit_str(<<"-">> \o token.val, overflow_checks)
        IN /\ SameResult(paren, minus)
           /\ NegationOf(paren, out)
           /\ NegationOf(minus, out)

(***************************************************************************)
(* C7: a currency symbol in front of a numeric body B does not change the  *)
(* result.                                                                 *)
(***************************************************************************)
C7_PrefixSymbol ==
    (StrDone /\ NumericBody(token.val)) =>
        \A c \in CurrencySymbols :
            SameResult(visit_str(<<c>> \o token.val, overflow_checks), out)

(***************************************************************************)
(* C8: a currency symbol behind a numeric body B does not change the       *)
(* result.                                                                 *)
(***************************************************************************)
C8_SuffixSymbol ==
    (StrDone /\ NumericBody(token.val)) =>
        \A c \in CurrencySymbols :
            SameResult(visit_str(token.val \o <<c>>, overflow_checks), out)

(***************************************************************************)
(* C9: for a non-negative integer n, the integer token n, the digit string *)
(* of n and Decimal(n) give the same Decimal.                              *)
(***************************************************************************)
C9_IntegerAgreement ==
    (pc = "done" /\ token.kind \in {"i64", "u64"} /\ token.val >= 0) =>
        LET viaStr == visit_str(IntToStr(token.val), overflow_checks)
        IN /\ out.kind = "ok"
           /\ out.value = Dec(FALSE, token.val, 0)
           /\ viaStr.kind = "ok"
           /\ viaStr.value = out.value

C9_Witness ==
    /\ pc = "done"
    /\ token = [kind |-> "u64", val |-> 1000]
    /\ out.kind = "ok"
    /\ visit_str(<<"1", "0", "0", "0">>, overflow_checks).value = out.value

(***************************************************************************)
(* C10 as stated: normalizing the canonical string of any result gives the *)
(* same Decimal again.                                                     *)
(***************************************************************************)
C10_Original ==
    (pc = "done" /\ out.kind = "ok") =>
        LET again == visit_str(to_string(out.value), overflow_checks)
        IN again.kind = "ok" /\ DecEq(again.value, out.value)

(***************************************************************************)
(* C10 as amended: normalizing the canonical string of a result that has   *)
(* at most 2 fractional digits gives the same Decimal again.               *)
(***************************************************************************)
C10_Amended ==
    (pc = "done" /\ out.kind = "ok" /\ out.value.scale <= 2) =>
        LET again == visit_str(to_string(out.value), overflow_checks)
        IN again.kind = "ok" /\ DecEq(again.value, out.value)

C10_Witness ==
    /\ StrDone
    /\ token.val = <<"0", ",", "5", "0">>
    /\ out.kind = "ok"
    /\ to_string(out.value) = <<"0", ".", "5", "0">>
    /\ visit_str(to_string(out.value), overflow_checks).kind = "ok"

(***************************************************************************)
(* C11: a string token without any ASCII digit always yields a parse       *)
(* failure, never a Decimal.                                               *)
(***************************************************************************)
C11_NoDigitFails ==
    (StrDone /\ DigitsOf(token.val) = <<>>) => out.kind = "err"

(***************************************************************************)
(* C12: every parse failure of the normalizer carries the raw token it was *)
(* given, as received (an empty text is carried by any message).           *)
(***************************************************************************)
C12_FailureCarriesRaw ==
    (pc = "done" /\ token.kind \in {"str", "f64"} /\ out.kind = "err") =>
        \/ out.msg.raw = <<token.val>>
        \/ token.val = <<>>

(***************************************************************************)
(* duration_from_secs: Duration on the wire as a count of seconds.         *)
(*                                                                         *)
(* A u64 is four 16-bit limbs <<l3, l2, l1, l0>>, most significant first,  *)
(* so that the casts between i64 and u64 keep their 64-bit width.          *)
(***************************************************************************)
MaxSecs == 30      \* largest enumerated magnitude of a seconds count

\* 2^16, the radix of the limbs
LimbRadix == 65536

\* The u64 of a non-negative integer below 2^31.
U64Of(n) == <<0, 0, n \div LimbRadix, n % LimbRadix>>

\* Bitwise complement of a u64.
U64Not(u) == [i \in 1..4 |-> (LimbRadix - 1) - u[i]]

U64Zero == <<0, 0, 0, 0>>

\* `secs as u64` on an i64: two's complement, a negative value wraps to
\* 2^64 - |secs|.
I64AsU64(n) == IF n >= 0 THEN U64Of(n) ELSE U64Not(U64Of((-n) - 1))

\* Value of the low 32 bits of a u64 whose high bits are clear.
U64Low(u) == u[3] * LimbRadix + u[4]

\* `as_secs() as i64` on a u64: a value of 2^63 or more becomes negative.
U64AsI64(u) ==
    IF u[1] < LimbRadix \div 2 THEN U64Low(u)
    ELSE -(U64Low(U64Not(u)) + 1)

\* Duration::from_secs
DurationFromSecs(u) == [secs |-> u, nanos |-> 0]

NoDuration == DurationFromSecs(U64Zero)

\* The serializer emitting whole minutes instead of whole seconds.
serialize_duration_minutes(d) == U64AsI64(d.secs) \div 60

\* duration_from_secs::serialize: serialize_i64(duration.as_secs() as i64)
serialize_duration(d) == U64AsI64(d.secs)

\* duration_from_secs::deserialize: i64::deserialize, then
\* Duration::from_secs(secs as u64).
deserialize_duration(w) ==
    IF w.kind = "int"
    THEN [kind |-> "ok", duration |-> DurationFromSecs(I64AsU64(w.val)),
          emitted |-> 0]
    ELSE [kind |-> "err", duration |-> NoDuration, emitted |-> 0]

\* Wire values: i64 integers, and values i64::deserialize rejects.
DurationTokens ==
    {[kind |-> "int", val |-> n] :
        n \in ((-MaxSecs)..MaxSecs) \cup
              {3600, 86400, 2147483647, -3600, -2147483647}} \cup
    {[kind |-> "string", val |-> 0], [kind |-> "float", val |-> 0],
     [kind |-> "null", val |-> 0]}

\* Durations the program holds itself: n seconds and 2^64 - 1 - n seconds.
HeldDurations ==
    {[kind |-> "duration", val |-> U64Of(n)] : n \in 0..MaxSecs} \cup
    {[kind |-> "duration", val |-> U64Not(U64Of(n))] : n \in 0..MaxSecs}

DurationInit ==
    /\ token \in DurationTokens \cup HeldDurations
    /\ overflow_checks \in BOOLEAN
    /\ pc = "start"
    /\ out = [kind |-> "none", duration |-> NoDuration, emitted |-> 0]

\* Duration::from_secs by the program: a value ready to be serialized
DurationHeld ==
    /\ pc = "start"
    /\ token.kind = "duration"
    /\ pc' = "deserialized"
    /\ out' = [kind |-> "ok", duration |-> DurationFromSecs(token.val),
               emitted |-> 0]
    /\ UNCHANGED <<token, overflow_checks>>

DurationDeserialize ==
    /\ pc = "start"
    /\ token.kind # "duration"
    /\ pc' = "deserialized"
    /\ out' = deserialize_duration(token)
    /\ UNCHANGED <<token, overflow_checks>>

DurationSerialize ==
    /\ pc = "deserialized"
    /\ out.kind = "ok"
    /\ pc' = "serialized"
    /\ out' = [out EXCEPT !.emitted = serialize_duration(out.duration)]
    /\ UNCHANGED <<token, overflow_checks>>

DurationNext ==
    \/ DurationHeld
    \/ DurationDeserialize
    \/ DurationSerialize

DurationSpec == DurationInit /\ [][DurationNext]_vars

(***************************************************************************)
(* C13: deserializing a negative i64 as a Duration yields a failure or a   *)
(* zero Duration, never a positive one.                                    *)
(***************************************************************************)
C13_NegativeNotPositive ==
    (pc # "start" /\ token.kind = "int" /\ token.val < 0) =>
        \/ out.kind = "err"
        \/ out.duration.secs = U64Zero

(***************************************************************************)
(* C14: a non-negative i64 n deserializes to a Duration of exactly n       *)
(* seconds, and serializing that Duration emits n again.                   *)
(***************************************************************************)
C14_RoundTrip ==
    (pc # "start" /\ token.kind = "int" /\ token.val >= 0) =>
        /\ out.kind = "ok"
        /\ out.duration.secs[1] = 0
        /\ out.duration.secs[2] = 0
        /\ out.duration.secs[3] * 65536 + out.duration.secs[4] = token.val
        /\ out.duration.nanos = 0
        /\ pc = "serialized" => out.emitted = token.val

C14_Witness ==
    /\ pc = "serialized"
    /\ token = [kind |-> "int", val |-> 3600]
    /\ out.duration.secs = <<0, 0, 0, 3600>>
    /\ out.emitted = 3600

(***************************************************************************)
(* naive_date: DateTime<Utc> on the wire as RFC 3339, with a bare          *)
(* YYYY-MM-DD accepted as a fallback.                                      *)
(*                                                                         *)
(* A DateTime<Utc> is [y, m, d, secs]: the UTC civil date and the second   *)
(* of that day.                                                            *)
(***************************************************************************)
MaxMonth == 13     \* largest enumerated month number on the wire
MaxDay == 32       \* largest enumerated day number on the wire

\* Years of the enumerated wire dates.
WireYears == {1900, 2000, 2023, 2024}

TwoDigits(n) == <<DigitChar((n \div 10) % 10), DigitChar(n % 10)>>

FourDigits(n) == TwoDigits(n \div 100) \o TwoDigits(n % 100)

IsLeapYear(y) == (y % 4 = 0 /\ y % 100 # 0) \/ y % 400 = 0

\* Month lengths with February always 28 days long.
DaysInMonth_NoLeap(y, m) ==
    IF m = 2 THEN 28
    ELSE IF m \in {4, 6, 9, 11} THEN 30 ELSE 31

\* Days of month m of year y (proleptic Gregorian calendar).
DaysInMonth(y, m) ==
    IF m = 2 THEN (IF IsLeapYear(y) THEN 29 ELSE 28)
    ELSE IF m \in {4, 6, 9, 11} THEN 30 ELSE 31

\* NaiveDate::from_ymd_opt(y, m, d).is_some()
ValidDate(y, m, d) ==
    m \in 1..12 /\ d >= 1 /\ d <= DaysInMonth(y, m)

Instant(y, m, d, secs) == [y |-> y, m |-> m, d |-> d, secs |-> secs]

NoInstant == Instant(0, 0, 0, 0)

PrevDay(y, m, d) ==
    IF d > 1 THEN Instant(y, m, d - 1, 0)
    ELSE IF m > 1 THEN Instant(y, m - 1, DaysInMonth(y, m - 1), 0)
    ELSE Instant(y - 1, 12, 31, 0)

NextDay(y, m, d) ==
    IF d < DaysInMonth(y, m) THEN Instant(y, m, d + 1, 0)
    ELSE IF m < 12 THEN Instant(y, m + 1, 1, 0)
    ELSE Instant(y + 1, 1, 1, 0)

\* dt.with_timezone(&Utc): the local date and second of day, less the
\* offset (below 24 hours either way).
ToUtc(y, m, d, secs, offset) ==
    LET u == secs - offset
    IN IF u < 0
       THEN [PrevDay(y, m, d) EXCEPT !.secs = u + 86400]
       ELSE IF u >= 86400
       THEN [NextDay(y, m, d) EXCEPT !.secs = u - 86400]
       ELSE Instant(y, m, d, u)

AllDigits(s) == \A i \in 1..Len(s) : IsAsciiDigit(s[i])

\* The decimal number written by the characters i..j of s.
Num(s, i, j) == DigitsValue(SubSeq(s, i, j))

\* DateTime::parse_from_rfc3339 on texts without fractional seconds:
\* YYYY-MM-DDTHH:MM:SS followed by Z or +HH:MM / -HH:MM.
ParseRfc3339(s) ==
    LET shape ==
            /\ Len(s) \in {20, 25}
            /\ AllDigits(SubSeq(s, 1, 4)) /\ s[5] = "-"
            /\ AllDigits(SubSeq(s, 6, 7)) /\ s[8] = "-"
            /\ AllDigits(SubSeq(s, 9, 10)) /\ s[11] \in {"T", "t", " "}
            /\ AllDigits(SubSeq(s, 12, 13)) /\ s[14] = ":"
            /\ AllDigits(SubSeq(s, 15, 16)) /\ s[17] = ":"
            /\ AllDigits(SubSeq(s, 18, 19))
            /\ IF Len(s) = 20 THEN s[20] \in {"Z", "z"}
               ELSE /\ s[20] \in {"+", "-"}
                    /\ AllDigits(SubSeq(s, 21, 22)) /\ s[23] = ":"
                    /\ AllDigits(SubSeq(s, 24, 25))
        y == Num(s, 1, 4)
        m == Num(s, 6, 7)
        d == Num(s, 9, 10)
        secs == Num(s, 12, 13) * 3600 + Num(s, 15, 16) * 60 + Num(s, 18, 19)
        offAbs == IF Len(s) = 20 THEN 0
                  ELSE Num(s, 21, 22) * 3600 + Num(s, 24, 25) * 60
        offset == IF Len(s) = 25 /\ s[20] = "-" THEN -offAbs ELSE offAbs
        inRange ==
            /\ ValidDate(y, m, d)
            /\ Num(s, 12, 13) < 24 /\ Num(s, 15, 16) < 60
            /\ Num(s, 18, 19) < 60
            /\ Len(s) = 25 => (Num(s, 21, 22) < 24 /\ Num(s, 24, 25) < 60)
    IN IF shape /\ inRange
       THEN [some |-> TRUE, value |-> ToUtc(y, m, d, secs, offset)]
       ELSE [some |-> FALSE, value |-> NoInstant]

RECURSIVE LeadingDigits(_, _)
\* scan::number: how many of the first max characters of s are digits.
LeadingDigits(s, max) ==
    IF s = <<>> \/ max = 0 \/ ~IsAsciiDigit(Head(s)) THEN 0
    ELSE 1 + LeadingDigits(Tail(s), max - 1)

\* NaiveDate::parse_from_str(s, "%Y-%m-%d"): each number may be preceded by
\* white space; the year has 1 to 4 digits, the month and the day 1 or 2;
\* nothing may follow the day, and the date must exist.
ParseNaiveDate(s) ==
    LET s1 == TrimStart(s)
        ny == LeadingDigits(s1, 4)
        r1 == SubSeq(s1, ny + 1, Len(s1))
        s2 == IF StartsWith(r1, "-") THEN TrimStart(Tail(r1)) ELSE <<>>
        nm == LeadingDigits(s2, 2)
        r2 == SubSeq(s2, nm + 1, Len(s2))
        s3 == IF StartsWith(r2, "-") THEN TrimStart(Tail(r2)) ELSE <<>>
        nd == LeadingDigits(s3, 2)
        r3 == SubSeq(s3, nd + 1, Len(s3))
        y == Num(s1, 1, ny)
        m == Num(s2, 1, nm)
        d == Num(s3, 1, nd)
    IN IF /\ ny >= 1 /\ StartsWith(r1, "-")
          /\ nm >= 1 /\ StartsWith(r2, "-")
          /\ nd >= 1 /\ r3 = <<>>
          /\ ValidDate(y, m, d)
       THEN [some |-> TRUE, value |-> [y |-> y, m |-> m, d |-> d]]
       ELSE [some |-> FALSE, value |-> [y |-> 0, m |-> 0, d |-> 0]]

\* The fallback taking noon instead of the start of the day.
MidnightUtc_Noon(date) == Instant(date.y, date.m, date.d, 43200)

\* Utc.from_local_datetime(&date.and_hms_opt(0, 0, 0)).single()
MidnightUtc(date) == Instant(date.y, date.m, date.d, 0)

\* naive_date::deserialize: the RFC 3339 parse first, then the bare date.
deserialize_instant(s) ==
    LET full == ParseRfc3339(s)
        bare == ParseNaiveDate(s)
    IN IF full.some
       THEN [kind |-> "ok", path |-> "rfc3339", instant |-> full.value,
             emitted |-> <<>>, msg |-> NoMsg]
       ELSE IF bare.some
       THEN [kind |-> "ok", path |-> "date",
             instant |-> MidnightUtc(bare.value),
             emitted |-> <<>>, msg |-> NoMsg]
       ELSE [kind |-> "err", path |-> "date", instant |-> NoInstant,
             emitted |-> <<>>, msg |-> Msg("chrono::ParseError", <<>>)]

\* DateTime<Utc>::to_rfc3339
to_rfc3339(dt) ==
    FourDigits(dt.y) \o <<"-">> \o TwoDigits(dt.m) \o <<"-">>
        \o TwoDigits(dt.d) \o <<"T">>
        \o TwoDigits(dt.secs \div 3600) \o <<":">>
        \o TwoDigits((dt.secs \div 60) % 60) \o <<":">>
        \o TwoDigits(dt.secs % 60) \o <<"+", "0", "0", ":", "0", "0">>

\* NaiveDate written as YYYY-MM-DD
DateText(y, m, d) ==
    FourDigits(y) \o <<"-">> \o TwoDigits(m) \o <<"-">> \o TwoDigits(d)

\* What may follow the date on the wire.
WireSuffixes == {
    <<>>,
    <<"T", "0", "0", ":", "0", "0", ":", "0", "0", "Z">>,
    <<"T", "0", "0", ":", "0", "0", ":", "0", "0", "+", "0", "0", ":", "0", "0">>,
    <<"T", "1", "2", ":", "3", "0", ":", "0", "0", "Z">>,
    <<"T", "2", "3", ":", "3", "0", ":", "0", "0", "-", "0", "1", ":", "0", "0">>,
    <<"T", "0", "0", ":", "0", "0", ":", "0", "0">>}

\* Wire texts of other shapes.
OtherWireTexts == {
    <<>>,
    <<"a", "b", "c">>,
    <<"2", "0", "2", "4", "-", "1", "-", "5">>,
    <<"2", "0", "2", "4", "/", "0", "1", "/", "1", "5">>,
    <<"2", "0", "2", "4", "-", "0", "1", "-", "1", "5", " ">>,
    <<"1", "5", "-", "0", "1", "-", "2", "0", "2", "4">>}

DateTokens ==
    {[kind |-> "str", val |-> DateText(y, m, d) \o suffix] :
        y \in WireYears, m \in 0..MaxMonth, d \in 0..MaxDay,
        suffix \in WireSuffixes} \cup
    {[kind |-> "str", val |-> v] : v \in OtherWireTexts}

DateInit ==
    /\ token \in DateTokens
    /\ overflow_checks \in BOOLEAN
    /\ pc = "start"
    /\ out = [kind |-> "none", path |-> "none", instant |-> NoInstant,
              emitted |-> <<>>, msg |-> NoMsg]

DateDeserialize ==
    /\ pc = "start"
    /\ pc' = "deserialized"
    /\ out' = deserialize_instant(token.val)
    /\ UNCHANGED <<token, overflow_checks>>

\* naive_date::serialize
DateSerialize ==
    /\ pc = "deserialized"
    /\ out.kind = "ok"
    /\ pc' = "serialized"
    /\ out' = [out EXCEPT !.emitted = to_rfc3339(out.instant)]
    /\ UNCHANGED <<token, overflow_checks>>

DateNext ==
    \/ DateDeserialize
    \/ DateSerialize

DateSpec == DateInit /\ [][DateNext]_vars

(***************************************************************************)
(* Vocabulary of the date properties.                                      *)
(***************************************************************************)
\* Four digits, '-', two digits, '-', two digits.
DateShaped(s) ==
    /\ Len(s) = 10
    /\ \A i \in {1, 2, 3, 4, 6, 7, 9, 10} : s[i] \in AsciiDigits
    /\ s[5] = "-" /\ s[8] = "-"

\* Length of a month of the civil calendar.
CalendarDays(y, m) ==
    CASE m \in {1, 3, 5, 7, 8, 10, 12} -> 31
      [] m \in {4, 6, 9, 11} -> 30
      [] m = 2 -> IF (y % 4 = 0 /\ y % 100 # 0) \/ y % 400 = 0
                  THEN 29 ELSE 28
      [] OTHER -> 0

\* A date-shaped text that names a day of the calendar.
CalendarDate(s) ==
    /\ DateShaped(s)
    /\ Num(s, 9, 10) >= 1
    /\ Num(s, 9, 10) <= CalendarDays(Num(s, 1, 4), Num(s, 6, 7))

MidnightZ == <<"T", "0", "0", ":", "0", "0", ":", "0", "0", "Z">>

(***************************************************************************)
(* C15: a valid calendar date D written YYYY-MM-DD deserializes, to the    *)
(* same instant as D + "T00:00:00Z", midnight UTC of that date; the        *)
(* full-timestamp parse is tried first and the fallback only after it      *)
(* failed.                                                                 *)
(***************************************************************************)
C15_BareDateIsMidnight ==
    (pc # "start" /\ CalendarDate(token.val)) =>
        /\ out.kind = "ok"
        /\ out.instant = [y |-> Num(token.val, 1, 4),
                          m |-> Num(token.val, 6, 7),
                          d |-> Num(token.val, 9, 10), secs |-> 0]
        /\ deserialize_instant(token.val \o MidnightZ).kind = "ok"
        /\ deserialize_instant(token.val \o MidnightZ).path = "rfc3339"
        /\ deserialize_instant(token.val \o MidnightZ).instant = out.instant
        /\ out.path = "date"
        /\ ~ParseRfc3339(token.val).some

C15_Witness ==
    /\ pc = "deserialized"
    /\ token.val = DateText(2024, 1, 15)
    /\ out.kind = "ok"
    /\ out.instant = Instant(2024, 1, 15, 0)

(***************************************************************************)
(* C16 as stated: the fallback never fails on a text of the shape          *)
(* YYYY-MM-DD (four-digit year, two-digit month, two-digit day); a text    *)
(* that neither parse accepts gives a parse failure, never a panic.        *)
(***************************************************************************)
C16_Original ==
    pc # "start" =>
        /\ DateShaped(token.val) => out.kind = "ok"
        /\ out.kind \in {"ok", "err"}

(***************************************************************************)
(* C16 as amended: the fallback never fails on a text of the shape         *)
(* YYYY-MM-DD that names an existing calendar date; a text that neither    *)
(* parse accepts (a date-shaped text with a month or day that does not     *)
(* exist included) gives a parse failure, never a panic.                   *)
(***************************************************************************)
C16_Amended ==
    pc # "start" =>
        /\ CalendarDate(token.val) => out.kind = "ok"
        /\ (DateShaped(token.val) /\ ~CalendarDate(token.val)) =>
               out.kind = "err"
        /\ (~ParseRfc3339(token.val).some /\ ~ParseNaiveDate(token.val).some)
               => out.kind = "err"
        /\ out.kind \in {"ok", "err"}

C16_Witness ==
    /\ pc = "deserialized"
    /\ token.val = DateText(2024, 2, 29)
    /\ out.kind = "ok"
    /\ out.path = "date"

(***************************************************************************)
(* C17: for the adapter of the calendar-date fields, serializing the       *)
(* deserialized value of a well-formed YYYY-MM-DD text gives the same      *)
(* 10-character text again.                                                *)
(***************************************************************************)
C17_DateRoundTrip ==
    (pc = "serialized" /\ CalendarDate(token.val)) =>
        out.emitted = token.val

(***************************************************************************)
(* The HTTP client: the paginated list operations, execute_request and     *)
(* the handling of the response.                                           *)
(*                                                                         *)
(* token is the call (operation and arguments), out holds the requests     *)
(* handed to the HTTP runtime, the response that came back and the value   *)
(* the operation returned.  pc is "start" before the call, "sent" while    *)
(* the operation awaits the response, "done" once it has returned.         *)
(***************************************************************************)
MaxIds == 2        \* longest enumerated list of ids

MAX_PER_PAGE == 100

Some(v) == [some |-> TRUE, v |-> v]

None == [some |-> FALSE, v |-> 0]

\* #[builder(default = d)]
Default(opt, d) == IF opt.some THEN opt.v ELSE d

\* HashMap::new()
EmptyMap == [k \in {} |-> <<>>]

\* HashMap::insert: a key holds one value, a second insert replaces it.
HashMapInsert(map, key, value) ==
    [k \in DOMAIN map \cup {key} |-> IF k = key THEN value ELSE map[k]]

\* Display of an id, written here as the digits of its number.
IdToString(id) == IntToStr(id)

RECURSIVE InsertEach(_, _, _)
\* for id in ids { query_params.insert(key, id.to_string()); }
InsertEach(map, key, ids) ==
    IF ids = <<>> THEN map
    ELSE InsertEach(HashMapInsert(map, key, IdToString(Head(ids))),
                    key, Tail(ids))

\* if let Some(ids) = ids { for id in ids { ... } }
InsertIds(map, key, ids) ==
    IF ids.some THEN InsertEach(map, key, ids.v) ELSE map

\* The two inserts every list operation makes.
PageParams(page, per_page) ==
    HashMapInsert(HashMapInsert(EmptyMap, "page", IntToStr(page)),
                  "per_page", IntToStr(per_page))

\* The per_page guard with the limit itself refused too.
PerPageTooLarge_Inclusive(per_page) == per_page >= MAX_PER_PAGE

\* if per_page > MAX_PER_PAGE
PerPageTooLarge(per_page) == per_page > MAX_PER_PAGE

\* Url::parse_with_params: one key=value pair per entry of the map.
QueryPairs(map) == {<<k, map[k]>> : k \in DOMAIN map}

\* Auth::Bearer(token)
Bearer(secret) == [kind |-> "Bearer", secret |-> secret]

\* Auth::ApiKey(key)
ApiKey(secret) == [kind |-> "ApiKey", secret |-> secret]

\* HeaderValue::from_str(s).is_ok(): control characters (other than tab)
\* are refused.
IsHeaderValue(s) == \A i \in 1..Len(s) : s[i] \notin {"\n", "\r"}

ApplicationJson == <<"a", "p", "p", "l", "i", "c", "a", "t", "i", "o", "n", "/", "j", "s", "o", "n">>

\* format!("Bearer {}", token.as_str())
BearerValue(secret) == <<"B", "e", "a", "r", "e", "r", " ">> \o secret

\* The match on self.auth with the API key put under Authorization too.
AuthHeader_AlwaysAuthorization(auth) ==
    IF auth.kind = "Bearer"
    THEN [name |-> "authorization", value |-> BearerValue(auth.secret)]
    ELSE [name |-> "authorization", value |-> auth.secret]

\* match &self.auth: the name and the text of the credential header.
\* Header names are case-insensitive and kept in lower case.
AuthHeader(auth) ==
    IF auth.kind = "Bearer"
    THEN [name |-> "authorization", value |-> BearerValue(auth.secret)]
    ELSE [name |-> "x-api-key", value |-> auth.secret]

\* The HeaderMap of execute_request: Accept, the credential, and
\* Content-Type when there is a body.
Headers(auth, body) ==
    LET h0 == HashMapInsert(EmptyMap, "accept", ApplicationJson)
        h1 == HashMapInsert(h0, AuthHeader(auth).name, AuthHeader(auth).value)
    IN IF body # "none"
       THEN HashMapInsert(h1, "content-type", ApplicationJson)
       ELSE h1

\* path_id is the id format! appends to the path (empty when there is none)
Request(method, path, path_id, query, headers, body) ==
    [method |-> method, path |-> path, path_id |-> path_id,
     query |-> query, pairs |-> QueryPairs(query),
     headers |-> headers, body |-> body]

NoBody ==
    [id |-> "none", readable |-> TRUE, json |-> "invalid",
     message |-> "absent", error |-> "absent", fits |-> FALSE]

NoText == [from |-> "none", body |-> "none"]

NoResult ==
    [kind |-> "none", variant |-> "none", status |-> 0,
     message |-> NoText, param |-> <<>>]

ApiErr(variant, status, message) ==
    [kind |-> "Err", variant |-> variant, status |-> status,
     message |-> message, param |-> <<>>]

\* ApiError::InvalidParameter(format!("per_page cannot exceed {MAX_PER_PAGE}"))
InvalidParameter ==
    [kind |-> "Err", variant |-> "InvalidParameter", status |-> 0,
     message |-> NoText,
     param |-> <<"per_page cannot exceed ">> \o IntToStr(MAX_PER_PAGE)]

\* StatusCode::is_success
IsSuccess(status) == status >= 200 /\ status < 300

\* Every JSON text taken to deserialize, whatever the type asked for.
Deserializes_AnyJson(body, expected) == body.json # "invalid"

\* serde_json::from_str::<T>(&text).is_ok(): any JSON text is a
\* serde_json::Value, a model type needs the object it describes.
Deserializes(body, expected) ==
    IF expected = "Value" THEN body.json # "invalid" ELSE body.fits

\* handle_success_response: the body text read and parsed as T.
handle_success_response(body, expected) ==
    IF ~body.readable THEN ApiErr("Network", 0, NoText)
    ELSE IF Deserializes(body, expected) THEN [NoResult EXCEPT !.kind = "Ok"]
    ELSE ApiErr("JsonDeserialization", 0,
                [from |-> "source_string", body |-> body.id])

\* serde_json::from_str::<ErrorResponse>(&text).is_ok(): an object with a
\* string "error" and a "message" that is a string or is not there.
IsErrorResponse(body) ==
    /\ body.readable
    /\ body.json = "object"
    /\ body.error = "string"
    /\ body.message \in {"absent", "null", "string"}

\* The message with "error" looked up before "message".
ErrorMessage_ErrorFirst(body) ==
    IF ~body.readable THEN [from |-> "status", body |-> body.id]
    ELSE IF body.json = "object" /\ body.error = "string"
    THEN [from |-> "error", body |-> body.id]
    ELSE IF body.json = "object" /\ body.message = "string"
    THEN [from |-> "message", body |-> body.id]
    ELSE [from |-> "text", body |-> body.id]

\* The message of handle_error_response, as the place it is taken from.
ErrorMessage(body) ==
    IF ~body.readable THEN [from |-> "status", body |-> body.id]
    ELSE IF IsErrorResponse(body)
    THEN [from |-> IF body.message = "string" THEN "message" ELSE "error",
          body |-> body.id]
    ELSE IF body.json = "object" /\ body.message = "string"
    THEN [from |-> "message", body |-> body.id]
    ELSE IF body.json = "object" /\ body.error = "string"
    THEN [from |-> "error", body |-> body.id]
    ELSE [from |-> "text", body |-> body.id]

\* The status match with 422 falling to the catch-all arm.
ErrorVariant_No422(status) ==
    CASE status = 400 -> "BadRequest"
      [] status = 401 -> "Unauthorized"
      [] status = 403 -> "Forbidden"
      [] status = 404 -> "NotFound"
      [] status = 429 -> "RateLimited"
      [] status = 500 -> "InternalServerError"
      [] OTHER -> "ApiError"

\* match status { ... } of handle_error_response
ErrorVariant(status) ==
    CASE status = 400 -> "BadRequest"
      [] status = 401 -> "Unauthorized"
      [] status = 403 -> "Forbidden"
      [] status = 404 -> "NotFound"
      [] status = 422 -> "ValidationError"
      [] status = 429 -> "RateLimited"
      [] status = 500 -> "InternalServerError"
      [] OTHER -> "ApiError"

\* handle_error_response: only BadRequest and ApiError keep the status.
handle_error_response(status, body) ==
    LET variant == ErrorVariant(status)
    IN ApiErr(variant,
              IF variant \in {"BadRequest", "ApiError"} THEN status ELSE 0,
              ErrorMessage(body))

(***************************************************************************)
(* The calls and the responses enumerated.                                 *)
(***************************************************************************)
PageOptions == {None, Some(1), Some(7)}

PerPageOptions == {None, Some(1), Some(100), Some(101), Some(1000)}

\* No list, the id 1 alone, and the ids 1..MaxIds in order.
IdsOptions == {None, Some(<<1>>), Some([i \in 1..MaxIds |-> i])}

\* Credentials: two that make a header value and one with a line break.
Auths ==
    {Bearer(<<"t", "0", "k">>), ApiKey(<<"k", "3", "y">>),
     Bearer(<<"t", "\n">>), ApiKey(<<"\r", "k">>)}

\* Whether base_url followed by the path parses as a URL.
BaseUrls == {"parses", "unparsable"}

\* The arguments of the operations: the client's auth and base_url, the
\* pagination and id lists of the list operations, the id of delete_chat
\* and whether the request of create_transaction serializes.
Call(op, auth, base_url, page, per_page, a, c, m, g, id, serializes) ==
    [op |-> op, auth |-> auth, base_url |-> base_url,
     page |-> page, per_page |-> per_page,
     account_ids |-> a, category_ids |-> c,
     merchant_ids |-> m, tag_ids |-> g,
     id |-> id, serializes |-> serializes]

Calls ==
    {Call(op, auth, base_url, page, per_page, None, None, None, None,
          0, TRUE) :
        op \in {"get_accounts", "get_categories", "get_merchants",
                 "get_chats"},
        auth \in Auths, base_url \in BaseUrls,
        page \in PageOptions, per_page \in PerPageOptions} \cup
    {Call("get_transactions", auth, base_url, page, per_page, a, c, m, g,
          0, TRUE) :
        auth \in Auths, base_url \in BaseUrls,
        page \in PageOptions, per_page \in PerPageOptions,
        a \in IdsOptions, c \in IdsOptions,
        m \in IdsOptions, g \in IdsOptions} \cup
    {Call("delete_chat", auth, base_url, None, None, None, None, None, None,
          id, TRUE) :
        auth \in Auths, base_url \in BaseUrls, id \in 1..MaxIds} \cup
    {Call("create_transaction", auth, base_url, None, None, None, None,
          None, None, 0, s) :
        auth \in Auths, base_url \in BaseUrls, s \in BOOLEAN}

Statuses == {200, 204, 302, 400, 401, 403, 404, 422, 429, 500, 503}

FieldKinds == {"absent", "null", "string", "number"}

\* Response bodies: one that cannot be read, an empty one, plain text, a
\* JSON array, JSON objects with and without "message" and "error", and
\* the object the operation expects.
ResponseBodies ==
    {[NoBody EXCEPT !.id = "unreadable", !.readable = FALSE],
     [NoBody EXCEPT !.id = "empty"],
     [NoBody EXCEPT !.id = "text"],
     [NoBody EXCEPT !.id = "array", !.json = "other"],
     [NoBody EXCEPT !.id = "expected", !.json = "object", !.fits = TRUE]}
    \cup
    {[NoBody EXCEPT !.id = "object", !.json = "object",
                    !.message = m, !.error = e] :
        m \in FieldKinds, e \in FieldKinds}

ClientInit ==
    /\ token \in Calls
    /\ overflow_checks = FALSE
    /\ pc = "start"
    /\ out = [sent |-> <<>>,
              response |-> [received |-> FALSE, status |-> 0, body |-> NoBody],
              result |-> NoResult]

\* Returning an error with a request handed to the HTTP runtime first.
Return_AfterSend(result) ==
    /\ pc' = "done"
    /\ out' = [out EXCEPT !.result = result,
                          !.sent = Append(@, Request("GET", "", <<>>, EmptyMap,
                                                     EmptyMap, "none"))]
    /\ UNCHANGED <<token, overflow_checks>>

\* return Err(..) before anything is sent
Return(result) ==
    /\ pc' = "done"
    /\ out' = [out EXCEPT !.result = result]
    /\ UNCHANGED <<token, overflow_checks>>

\* execute_request up to send().await: the URL, then the headers, then
\* the request handed to the HTTP runtime.
execute_request(method, path, path_id, query, body) ==
    IF token.base_url # "parses"
    THEN Return(ApiErr("UrlParse", 0, NoText))
    ELSE IF ~IsHeaderValue(AuthHeader(token.auth).value)
    THEN Return(ApiErr("InvalidHeaderValue", 0, NoText))
    ELSE /\ pc' = "sent"
         /\ out' = [out EXCEPT !.sent =
                        Append(@, Request(method, path, path_id, query,
                                          Headers(token.auth, body), body))]
         /\ UNCHANGED <<token, overflow_checks>>

\* The body shared by get_accounts, get_merchants and get_chats.
ListCall(path) ==
    LET page == Default(token.page, 1)
        per_page == Default(token.per_page, 25)
    IN IF PerPageTooLarge(per_page) THEN Return(InvalidParameter)
       ELSE execute_request("GET", path, <<>>,
                            PageParams(page, per_page), "none")

GetAccounts ==
    /\ pc = "start" /\ token.op = "get_accounts"
    /\ ListCall("/api/v1/accounts")

GetMerchants ==
    /\ pc = "start" /\ token.op = "get_merchants"
    /\ ListCall("/api/v1/merchants")

GetChats ==
    /\ pc = "start" /\ token.op = "get_chats"
    /\ ListCall("/api/v1/chats")

\* roots_only keeps its default, classification and parent_id are not given
GetCategories ==
    /\ pc = "start" /\ token.op = "get_categories"
    /\ LET page == Default(token.page, 1)
           per_page == Default(token.per_page, 25)
       IN IF PerPageTooLarge(per_page) THEN Return(InvalidParameter)
          ELSE execute_request("GET", "/api/v1/categories", <<>>,
                   HashMapInsert(PageParams(page, per_page),
                                 "roots_only", <<"f", "a", "l", "s", "e">>),
                   "none")

\* the scalar filters are not given
GetTransactions ==
    /\ pc = "start" /\ token.op = "get_transactions"
    /\ LET page == Default(token.page, 1)
           per_page == Default(token.per_page, 25)
           q0 == PageParams(page, per_page)
           q1 == InsertIds(q0, "account_ids[]", token.account_ids)
           q2 == InsertIds(q1, "category_ids[]", token.category_ids)
           q3 == InsertIds(q2, "merchant_ids[]", token.merchant_ids)
           q4 == InsertIds(q3, "tag_ids[]", token.tag_ids)
       IN IF PerPageTooLarge(per_page) THEN Return(InvalidParameter)
          ELSE execute_request("GET", "/api/v1/transactions", <<>>, q4,
                               "none")

\* delete_chat: DELETE /api/v1/chats/{id}, no query, no body
DeleteChat ==
    /\ pc = "start" /\ token.op = "delete_chat"
    /\ execute_request("DELETE", "/api/v1/chats/", IdToString(token.id),
                       EmptyMap, "none")

\* create_transaction: serde_json::to_string(&request)? is evaluated
\* before execute_request is entered.
CreateTransaction ==
    /\ pc = "start" /\ token.op = "create_transaction"
    /\ IF ~token.serializes
       THEN Return(ApiErr("JsonSerialization", 0, NoText))
       ELSE execute_request("POST", "/api/v1/transactions", <<>>,
                            EmptyMap, "CreateTransactionRequest")

\* send() returned the response; delete_chat asks for a serde_json::Value,
\* the other operations for a model type.
ReceiveResponse ==
    /\ pc = "sent"
    /\ \E status \in Statuses, body \in ResponseBodies :
           /\ pc' = "done"
           /\ out' = [out EXCEPT
                  !.response = [received |-> TRUE, status |-> status,
                                body |-> body],
                  !.result = IF IsSuccess(status)
                             THEN handle_success_response(body,
                                      IF token.op = "delete_chat"
                                      THEN "Value" ELSE "model")
                             ELSE handle_error_response(status, body)]
    /\ UNCHANGED <<token, overflow_checks>>

\* send() failed: map_err(ApiError::Network)
SendFails ==
    /\ pc = "sent"
    /\ pc' = "done"
    /\ out' = [out EXCEPT !.result = ApiErr("Network", 0, NoText)]
    /\ UNCHANGED <<token, overflow_checks>>

ClientNext ==
    \/ GetAccounts
    \/ GetTransactions
    \/ GetCategories
    \/ GetMerchants
    \/ GetChats
    \/ DeleteChat
    \/ CreateTransaction
    \/ ReceiveResponse
    \/ SendFails

ClientSpec == ClientInit /\ [][ClientNext]_vars

(***************************************************************************)
(* C18: a response with a status outside 200..299 makes the operation      *)
(* return Err with the variant fixed by the status alone: 400 BadRequest,  *)
(* 401 Unauthorized, 403 Forbidden, 404 NotFound, 422 ValidationError,     *)
(* 429 RateLimited, 500 InternalServerError, any other ApiError carrying   *)
(* the status; the body has no part in it.                                 *)
(***************************************************************************)
C18_StatusDecidesVariant ==
    (pc = "done" /\ out.response.received
        /\ (out.response.status < 200 \/ out.response.status > 299)) =>
        /\ out.result.kind = "Err"
        /\ out.result.variant =
               (CASE out.response.status = 400 -> "BadRequest"
                  [] out.response.status = 401 -> "Unauthorized"
                  [] out.response.status = 403 -> "Forbidden"
                  [] out.response.status = 404 -> "NotFound"
                  [] out.response.status = 422 -> "ValidationError"
                  [] out.response.status = 429 -> "RateLimited"
                  [] out.response.status = 500 -> "InternalServerError"
                  [] OTHER -> "ApiError")
        /\ out.result.variant = "ApiError" =>
               out.result.status = out.response.status

C18_Witness ==
    /\ pc = "done"
    /\ out.response.received
    /\ out.response.status = 422
    /\ out.response.body.id = "text"
    /\ out.result.kind = "Err"
    /\ out.result.variant = "ValidationError"

(***************************************************************************)
(* C19: a list operation called with per_page above 100 returns            *)
(* InvalidParameter and sends no request; called with per_page of at most  *)
(* 100 it sends one request whose query carries the page and per_page      *)
(* given, 1 and 25 where they are not given (the client being one whose    *)
(* URL and credential header can be built).                                *)
(***************************************************************************)
C19_PerPageLimit ==
    LET page == IF token.page.some THEN token.page.v ELSE 1
        per_page == IF token.per_page.some THEN token.per_page.v ELSE 25
    IN (/\ pc # "start"
        /\ token.op \in {"get_accounts", "get_transactions", "get_categories",
                         "get_merchants", "get_chats"}
        /\ token.base_url = "parses"
        /\ \A i \in 1..Len(token.auth.secret) :
               token.auth.secret[i] \notin {"\n", "\r"}) =>
        IF per_page > 100
        THEN /\ pc = "done"
             /\ out.result.kind = "Err"
             /\ out.result.variant = "InvalidParameter"
             /\ out.sent = <<>>
        ELSE /\ Len(out.sent) = 1
             /\ \E p \in out.sent[1].pairs :
                    p[1] = "page" /\ DigitsValue(p[2]) = page
             /\ \E p \in out.sent[1].pairs :
                    p[1] = "per_page" /\ DigitsValue(p[2]) = per_page

C19_Witness ==
    /\ pc = "done"
    /\ token.op = "get_chats"
    /\ token.per_page = Some(101)
    /\ out.result.variant = "InvalidParameter"
    /\ out.sent = <<>>

(***************************************************************************)
(* C20: get_transactions called with account_ids, category_ids,            *)
(* merchant_ids or tag_ids sends a query that has every id of the list     *)
(* under account_ids[], category_ids[], merchant_ids[] or tag_ids[]; no    *)
(* id is dropped.                                                          *)
(***************************************************************************)
C20_AllIdsSent ==
    (token.op = "get_transactions" /\ out.sent # <<>>) =>
        LET Carries(key, ids) ==
                ids.some =>
                    \A i \in 1..Len(ids.v) :
                        \E p \in out.sent[1].pairs :
                            p[1] = key /\ DigitsValue(p[2]) = ids.v[i]
        IN /\ Carries("account_ids[]", token.account_ids)
           /\ Carries("category_ids[]", token.category_ids)
           /\ Carries("merchant_ids[]", token.merchant_ids)
           /\ Carries("tag_ids[]", token.tag_ids)

(***************************************************************************)
(* C21: every request sent carries exactly one credential header, the one  *)
(* the client's Auth names: Bearer(t) gives Authorization "Bearer " + t    *)
(* and no X-Api-Key, ApiKey(k) gives X-Api-Key k and no Authorization.     *)
(***************************************************************************)
C21_OneCredentialHeader ==
    \A i \in 1..Len(out.sent) :
        LET h == out.sent[i].headers
        IN IF token.auth.kind = "Bearer"
           THEN /\ "authorization" \in DOMAIN h
                /\ h["authorization"] =
                       <<"B", "e", "a", "r", "e", "r", " ">>
                           \o token.auth.secret
                /\ "x-api-key" \notin DOMAIN h
           ELSE /\ "x-api-key" \in DOMAIN h
                /\ h["x-api-key"] = token.auth.secret
                /\ "authorization" \notin DOMAIN h

C21_Witness ==
    /\ pc = "sent"
    /\ token.auth.kind = "ApiKey"
    /\ Len(out.sent) = 1
    /\ out.sent[1].headers["x-api-key"] = <<"k", "3", "y">>

(***************************************************************************)
(* C22: delete_chat returns Ok(()) whenever the response to the DELETE     *)
(* has a 2xx status, whatever its body (an empty one, as with 204 No       *)
(* Content, included).                                                     *)
(***************************************************************************)
C22_DeleteChatOkOn2xx ==
    (/\ pc = "done" /\ token.op = "delete_chat"
     /\ out.response.received /\ out.response.body.readable
     /\ out.response.status \in 200..299) =>
        out.result.kind = "Ok"

(***************************************************************************)
(* Vocabulary of the response properties.                                  *)
(***************************************************************************)
ErrorStatus == out.response.status < 200 \/ out.response.status > 299

\* Where the precedence message, then error, then the body text leads.
PrecedenceSource(body) ==
    IF body.json = "object" /\ body.message = "string" THEN "message"
    ELSE IF body.json = "object" /\ body.error = "string" THEN "error"
    ELSE "text"

C28_BadBodyIsJsonDeserialization ==
    (/\ pc = "done" /\ out.response.received /\ ~ErrorStatus
     /\ out.response.body.readable
     /\ IF token.op = "delete_chat"
        THEN out.response.body.json = "invalid"
        ELSE ~out.response.body.fits) =>
        /\ out.result.kind = "Err"
        /\ out.result.variant = "JsonDeserialization"
        /\ out.result.message =
               [from |-> "source_string", body |-> out.response.body.id]

C28_Witness ==
    /\ pc = "done"
    /\ token.op = "get_accounts"
    /\ out.response.status = 200
    /\ out.response.body.id = "array"
    /\ out.result.variant = "JsonDeserialization"

(***************************************************************************)
(* C29: a call sends at most one request, exactly one when it ends with a  *)
(* response or a network error (nothing is retried), and none when it      *)
(* ends with InvalidParameter, JsonSerialization, UrlParse or              *)
(* InvalidHeaderValue.                                                     *)
(***************************************************************************)
C29_AtMostOneRequest ==
    /\ Len(out.sent) <= 1
    /\ (pc = "done" /\ out.result.variant \in
            {"InvalidParameter", "JsonSerialization", "UrlParse",
             "InvalidHeaderValue"}) => out.sent = <<>>
    /\ (pc = "done" /\ (out.response.received
                        \/ out.result.variant = "Network")) =>
            Len(out.sent) = 1

C29_Witness ==
    /\ pc = "done"
    /\ token.op = "create_transaction"
    /\ token.serializes
    /\ out.result.variant = "InvalidHeaderValue"
    /\ out.sent = <<>>

(***************************************************************************)
(* C23: visit_str is total and free of panics: every string, the ones      *)
(* shorter than 3 bytes with exactly one '.' or ',' included, gives a      *)
(* Decimal or a parse failure, and the subtraction len - 3 never goes      *)
(* below zero.                                                             *)
(***************************************************************************)
C23_NoUnderflow ==
    StrDone =>
        /\ out.kind \in {"ok", "err"}
        /\ LET b == Body(token.val)
           IN /\ (RFind(b, ".") = NoPos /\ RFind(b, ",") # NoPos)
                     => ~Underflows(b, ",")
              /\ (RFind(b, ".") # NoPos /\ RFind(b, ",") = NoPos)
                     => ~Underflows(b, ".")

(***************************************************************************)
(* C24: the text handed to the decimal parser is an optional leading '-',  *)
(* ASCII digits and at most one '.', also when both '.' and ',' occur and  *)
(* the later one occurs several times.                                     *)
(***************************************************************************)
C24_AtMostOnePoint ==
    (StrDone /\ out.kind \in {"ok", "err"}) =>
        LET f == out.final_str
            unsigned == IF f # <<>> /\ f[1] = "-" THEN Tail(f) ELSE f
        IN /\ \A i \in 1..Len(unsigned) :
                  unsigned[i] \in AsciiDigits \cup {"."}
           /\ Cardinality({i \in 1..Len(unsigned) : unsigned[i] = "."}) <= 1

(***************************************************************************)
(* C25: a negative token whose body starts with the decimal separator      *)
(* ("-.50", "-,50", "(.50)", "(,50)") gets the leading-zero repair of      *)
(* ".50" and ",50": the parser is handed "-0.50", never "-.50".            *)
(***************************************************************************)
C25_NegativeLeadingZero ==
    LET s == Trim(token.val)
        wrapped == Len(s) >= 2 /\ s[1] = "(" /\ s[Len(s)] = ")"
        b == IF wrapped THEN SubSeq(s, 2, Len(s) - 1)
             ELSE IF s # <<>> /\ s[1] = "-" THEN Tail(s) ELSE s
    IN (/\ StrDone /\ out.kind \in {"ok", "err"}
        /\ wrapped \/ (s # <<>> /\ s[1] = "-")
        /\ Len(b) \in 2..3
        /\ b[1] \in {".", ","}
        /\ \A i \in 2..Len(b) : b[i] \in AsciiDigits
        /\ HasChar(out.final_str, ".")) =>
            out.final_str = <<"-", "0", ".">> \o SubSeq(b, 2, Len(b))

(***************************************************************************)
(* C26: for every Duration the serializer emits its whole seconds as a     *)
(* non-negative integer, never a negative number, durations of 2^63        *)
(* seconds or more included.                                               *)
(***************************************************************************)
C26_NeverNegative ==
    (pc = "serialized" /\ token.kind = "duration") =>
        /\ out.emitted >= 0
        /\ U64Of(out.emitted) = out.duration.secs

(***************************************************************************)
(* AccountableAttributes: an untagged enum of structs whose fields are     *)
(* all optional.  A value is its variant and the fields that are Some; a   *)
(* JSON object is a function from member names to values, written as       *)
(* texts ("null" and "object" for a JSON null and a JSON object).          *)
(*                                                                         *)
(* token is the value and whether the crate is built with the feature      *)
(* "strict" (deny_unknown_fields); out holds the JSON and the value read   *)
(* back.                                                                   *)
(***************************************************************************)
\* The variants in the order of declaration, the order untagged tries them.
Variants ==
    <<"Depository", "Investment", "Crypto", "Property", "Vehicle",
      "OtherAsset", "CreditCard", "Loan", "OtherLiability">>

DepositorySubtypes == {"checking", "savings", "hsa", "cd", "money_market"}

InvestmentSubtypes ==
    {"brokerage", "pension", "retirement", "401k", "roth_401k", "403b",
     "tsp", "529_plan", "hsa", "mutual_fund", "ira", "roth_ira", "angel"}

PropertySubtypes ==
    {"single_family_home", "multi_family_home", "condominium", "townhouse",
     "investment_property", "second_home"}

LoanSubtypes == {"mortgage", "student", "auto", "other"}

\* Option<String> takes any text, Option<XSubtype> the names of the enum.
IsSubtype(variant, text) ==
    CASE variant = "Depository" -> text \in DepositorySubtypes
      [] variant = "Investment" -> text \in InvestmentSubtypes
      [] variant = "Property" -> text \in PropertySubtypes
      [] variant = "Loan" -> text \in LoanSubtypes
      [] OTHER -> TRUE

\* The member names of the struct of a variant.
Fields(variant) ==
    CASE variant = "Property" ->
            {"subtype", "year_built", "area_value", "area_unit",
             "locked_attributes", "address_attributes"}
      [] variant = "Vehicle" ->
            {"year", "make", "model", "mileage_value", "mileage_unit",
             "subtype", "locked_attributes"}
      [] variant = "CreditCard" ->
            {"subtype", "available_credit", "minimum_payment", "apr",
             "expiration_date", "annual_fee", "locked_attributes"}
      [] variant = "Loan" ->
            {"subtype", "rate_type", "interest_rate", "term_months",
             "initial_balance", "locked_attributes"}
      [] OTHER -> {"subtype", "locked_attributes"}

\* AccountableAttributes::kind
Kind(variant) ==
    CASE variant \in {"Crypto", "Property", "Vehicle"} -> "Property"
      [] OTHER -> variant

Attributes(variant, fields) == [variant |-> variant, fields |-> fields]

NoAttributes == Attributes("none", EmptyMap)

\* Serialize: the members that are Some (skip_serializing_if = "Option::is_none"),
\* with no mark of the variant (untagged).
serialize_attributes(v) == v.fields

\* Deserialize of the struct of one variant: a null member is None, a
\* member the struct does not have is skipped, or refused under "strict".
DeserializesAs(variant, json, strict) ==
    /\ strict => DOMAIN json \subseteq Fields(variant)
    /\ ("subtype" \in DOMAIN json /\ json["subtype"] # "null")
           => IsSubtype(variant, json["subtype"])

StructOf(variant, json) ==
    LET kept == {k \in DOMAIN json \cap Fields(variant) : json[k] # "null"}
    IN Attributes(variant, [k \in kept |-> json[k]])

RECURSIVE FirstMatch(_, _, _)
\* #[serde(untagged)]: the first variant, from the i-th on, that accepts.
FirstMatch(i, json, strict) ==
    IF i > Len(Variants) THEN 0
    ELSE IF DeserializesAs(Variants[i], json, strict) THEN i
    ELSE FirstMatch(i + 1, json, strict)

\* Deserialize for AccountableAttributes
deserialize_attributes(json, strict) ==
    LET i == FirstMatch(1, json, strict)
    IN IF i = 0 THEN [kind |-> "err", value |-> NoAttributes]
       ELSE [kind |-> "ok", value |-> StructOf(Variants[i], json)]

\* The subtypes a value of the variant can hold (two texts where the
\* subtype is a String).
SubtypeValues(variant) ==
    CASE variant = "Depository" -> DepositorySubtypes
      [] variant = "Investment" -> InvestmentSubtypes
      [] variant = "Property" -> PropertySubtypes
      [] variant = "Loan" -> LoanSubtypes
      [] OTHER -> {"checking", "wallet"}

\* The members a value may have set, each with the texts it may hold.
FieldValues(variant, k) ==
    CASE k = "subtype" -> SubtypeValues(variant)
      [] k = "locked_attributes" -> {"null", "object"}
      [] OTHER -> {"5"}

AttributeValues ==
    UNION {
        UNION {
            {Attributes(variant, f) :
                f \in {g \in [set -> UNION {FieldValues(variant, k) : k \in set}] :
                          \A k \in set : g[k] \in FieldValues(variant, k)}} :
            set \in SUBSET (Fields(variant) \cap
                                {"subtype", "locked_attributes", "year_built",
                                 "year", "apr", "term_months"})} :
        variant \in {Variants[i] : i \in 1..Len(Variants)}}

AttrInit ==
    /\ token \in {[value |-> v, strict |-> s] :
                      v \in AttributeValues, s \in BOOLEAN}
    /\ overflow_checks = FALSE
    /\ pc = "start"
    /\ out = [kind |-> "none", json |-> EmptyMap, value |-> NoAttributes]

\* serde_json::to_string(&attributes)
AttrSerialize ==
    /\ pc = "start"
    /\ pc' = "serialized"
    /\ out' = [out EXCEPT !.json = serialize_attributes(token.value)]
    /\ UNCHANGED <<token, overflow_checks>>

\* serde_json::from_str::<AccountableAttributes>(&json)
AttrDeserialize ==
    /\ pc = "serialized"
    /\ pc' = "deserialized"
    /\ out' = [out EXCEPT
           !.kind = deserialize_attributes(out.json, token.strict).kind,
           !.value = deserialize_attributes(out.json, token.strict).value]
    /\ UNCHANGED <<token, overflow_checks>>

AttrNext ==
    \/ AttrSerialize
    \/ AttrDeserialize

AttrSpec == AttrInit /\ [][AttrNext]_vars

(***************************************************************************)
(* C30: deserializing the JSON of an AccountableAttributes value gives     *)
(* the value back, in the same variant (so with the same kind()); the      *)
(* variants whose payloads have the same JSON shape are not confused.      *)
(* Stated for the values that hold no JSON null.                           *)
(***************************************************************************)
C30_VariantRoundTrip ==
    (/\ pc = "deserialized"
     /\ \A k \in DOMAIN token.value.fields : token.value.fields[k] # "null") =>
        /\ out.kind = "ok"
        /\ out.value.variant = token.value.variant
        /\ (CASE out.value.variant \in {"Crypto", "Property", "Vehicle"} ->
                     "Property"
              [] OTHER -> out.value.variant)
           = (CASE token.value.variant \in {"Crypto", "Property", "Vehicle"} ->
                     "Property"
              [] OTHER -> token.value.variant)
        /\ out.value = token.value

====
